---- MODULE Spec2Model ----
(***************************************************************************)
(* The datastore client of lib/datastore/index.js: the Transaction         *)
(* coordinator (begin, commit, rollback, finalize, get/getAll, put/putAll, *)
(* del/delAll, makeReq) and the Dataset facade (runInTransaction and the   *)
(* delegating methods), run against a Request Sender that answers every    *)
(* request once, in any order, with any (err, body) pair.                  *)
(*                                                                         *)
(* JavaScript values are records tagged by the field js, so that null,     *)
(* undefined, booleans, strings, errors and objects stay distinct values.  *)
(***************************************************************************)
EXTENDS Integers, Sequences, FiniteSets

\* ------------------------------------------------------------------ bounds

\* Public method invocations made by the caller in one run.
MaxCalls == 2
\* Explicit transactions runInTransaction may create (besides the default one).
MaxExplicit == 1
\* Longest key list / object list handed to a batch operation.
MaxKeys == 2
\* Longest found list in a lookup response.
MaxFound == 2
\* Largest n handed to allocateIds, and longest key list in its response.
MaxAlloc == 2
\* Calls of done() that fn makes on one explicit transaction.
MaxDone == 1
\* Longest project id handed to the Dataset constructor.
MaxIdLen == 5
\* Write streams created from one prediction Model.
MaxStreams == 2

\* -------------------------------------------------------------- JS values

Null == [js |-> "null"]
Undefined == [js |-> "undefined"]
JSBool(b) == [js |-> "boolean", b |-> b]
JSStr(s) == [js |-> "string", str |-> s]
JSErr(m) == [js |-> "error", msg |-> m]

\* JavaScript truthiness, as used by !err, !!err, !this.finalized, body && ..
Truthy(v) ==
  CASE v.js = "null" -> FALSE
    [] v.js = "undefined" -> FALSE
    [] v.js = "boolean" -> v.b
    [] v.js = "string" -> v.str # ""
    [] OTHER -> TRUE

\* body.error of a decoded body: undefined when the object has no such field.
ErrorField(body) ==
  IF body.js = "object" /\ "error" \in DOMAIN body THEN body.error ELSE Undefined

JSArr(items) == [js |-> "array", items |-> items]
JSKey(key) == [js |-> "key", key |-> key]
JSEntity(obj) == [js |-> "entity", entity |-> obj]

MODE_NON_TRANSACTIONAL == "NON_TRANSACTIONAL"
MODE_TRANSACTIONAL == "TRANSACTIONAL"
DATASTORE_BASE_URL == "https://www.googleapis.com/datastore/v1beta2/datasets"

\* ------------------------------------------------------------ entity codec
\* entity.js is not among the sources; the codec follows the contract of the
\* specification (sections 3 and 4.1).

\* A key is a sequence of segments; a segment's identifier is a numeric id, a
\* string name, or absent.
Seg(kind, t, v) == [kind |-> kind, idt |-> t, idv |-> v]
KeyA == <<Seg("Zoo", "id", "7"), Seg("Animal", "name", "cat")>>
KeyB == <<Seg("Animal", "name", "dog")>>
KeyInc == <<Seg("Zoo", "id", "7"), Seg("Animal", "absent", "")>>
\* The keys callers pass: one complete, one incomplete.
Keys == {KeyA, KeyInc}

isKeyComplete(key) == \A i \in DOMAIN key : key[i].idt # "absent"

\* One path element per segment, carrying kind and id XOR name XOR neither.
PathElement(seg) ==
  [kind |-> seg.kind,
   id |-> IF seg.idt = "id" THEN JSStr(seg.idv) ELSE Undefined,
   name |-> IF seg.idt = "name" THEN JSStr(seg.idv) ELSE Undefined]

\* The dataset argument is stored in the proto's partition as it was given.
keyToKeyProto(datasetId, key) ==
  [partitionId |-> [datasetId |-> datasetId],
   path |-> [i \in DOMAIN key |-> PathElement(key[i])]]

SegmentOf(el) ==
  IF el.id.js = "string" THEN Seg(el.kind, "id", el.id.str)
  ELSE IF el.name.js = "string" THEN Seg(el.kind, "name", el.name.str)
  ELSE Seg(el.kind, "absent", "")

keyFromKeyProto(proto) == [i \in DOMAIN proto.path |-> SegmentOf(proto.path[i])]

\* An entity maps property names to values; its proto lists {name, value}
\* pairs and, once assigned, the key proto.
EntityX == [colour |-> "black"]
EntityY == [colour |-> "white", legs |-> "4"]
Entities == {EntityX, EntityY}

NoKeyProto == [partitionId |-> [datasetId |-> Undefined], path |-> <<>>]

entityToEntityProto(obj) ==
  [key |-> NoKeyProto,
   property |-> {[name |-> n, value |-> [stringValue |-> obj[n]]] : n \in DOMAIN obj}]

entityFromEntityProto(proto) ==
  [n \in {p.name : p \in proto.property} |->
     (CHOOSE p \in proto.property : p.name = n).value.stringValue]

\* Finite sequences over S of length 0..n.
SeqUpTo(S, n) == UNION {[1..k -> S] : k \in 0..n}

\* ------------------------------------------------------- the Request Sender
\* conn.req answers callback(err, res, body): err is null or a transport
\* error; body is null, an object carrying an error field, or the method's
\* result object.

TransportErrs == {Null, JSErr("ETransport")}
ErrBody == [js |-> "object", error |-> JSErr("EService")]

FoundA == [entity |-> [entityToEntityProto(EntityX) EXCEPT
                         !.key = keyToKeyProto(JSStr("s~abc"), KeyA)]]
FoundB == [entity |-> [entityToEntityProto(EntityY) EXCEPT
                         !.key = keyToKeyProto(JSStr("s~abc"), KeyB)]]

\* Complete keys the server allocates for KeyInc.
KeyAlloc1 == <<Seg("Zoo", "id", "7"), Seg("Animal", "id", "1")>>
KeyAlloc2 == <<Seg("Zoo", "id", "7"), Seg("Animal", "id", "2")>>
AllocatedKeys ==
  {keyToKeyProto(JSStr("s~abc"), KeyAlloc1), keyToKeyProto(JSStr("s~abc"), KeyAlloc2)}

ResultBodies(method) ==
  CASE method = "beginTransaction" ->
         {[js |-> "object", transaction |-> "tx1"],
          [js |-> "object", transaction |-> "tx2"]}
    [] method = "commit" -> {[js |-> "object", mutationResult |-> "done"]}
    [] method = "rollback" -> {[js |-> "object"]}
    [] method = "lookup" ->
         {[js |-> "object", found |-> f] : f \in SeqUpTo({FoundA, FoundB}, MaxFound)}
    [] method = "allocateIds" ->
         {[js |-> "object", keys |-> k] : k \in SeqUpTo(AllocatedKeys, MaxAlloc)}

\* Every (err, body) a request may be answered with. A lookup or allocateIds
\* answered without a transport error carries an error, a found list or a key
\* list (the wire schema of these responses).
Responses(method) ==
  {[err |-> e, body |-> b] :
     e \in TransportErrs, b \in {Null, ErrBody} \cup ResultBodies(method)}
  \ (IF method \in {"lookup", "allocateIds"}
     THEN {[err |-> Null, body |-> Null]} ELSE {})

\* ----------------------------------------------------------- Transaction

\* function Transaction(conn, datasetId)
NewTransaction(conn, datasetId) ==
  [live |-> TRUE, conn |-> conn, datasetId |-> datasetId, id |-> Null,
   isFinalized |-> JSBool(FALSE), finalized |-> Undefined]

NotConstructed ==
  [live |-> FALSE, conn |-> Undefined, datasetId |-> Undefined, id |-> Null,
   isFinalized |-> Undefined, finalized |-> Undefined]

\* The arguments of one callback invocation.
Args0 == [n |-> 0, err |-> Undefined, a1 |-> Undefined, a2 |-> Undefined]
Args1(err) == [n |-> 1, err |-> err, a1 |-> Undefined, a2 |-> Undefined]
Args2(err, a1) == [n |-> 2, err |-> err, a1 |-> a1, a2 |-> Undefined]
Args3(err, a1, a2) == [n |-> 3, err |-> err, a1 |-> a1, a2 |-> a2]

\* makeReq: the options handed to conn.req.
MakeReqOptions(datasetId, method, req) ==
  [method |-> "POST", uri |-> <<DATASTORE_BASE_URL, datasetId, method>>, json |-> req]

\* A makeReq that lets the transport result win over the body's error field.
MakeReqCallbackTransportFirst(err, body) ==
  IF Truthy(err) \/ ~(Truthy(body) /\ Truthy(ErrorField(body)))
  THEN [err |-> err, resp |-> body]
  ELSE [err |-> ErrorField(body), resp |-> Null]

\* makeReq: what the response callback hands on, callback(body.error, null)
\* or callback(err, body).
MakeReqCallback(err, body) ==
  IF Truthy(body) /\ Truthy(ErrorField(body))
  THEN [err |-> ErrorField(body), resp |-> Null]
  ELSE [err |-> err, resp |-> body]

\* A begin that stores the response whether or not it failed.
BeginIdUnguarded(id, err, resp) == resp

\* begin: if (!err) that.id = resp
BeginId(id, err, resp) == IF ~Truthy(err) THEN resp ELSE id

\* rollback / commit: that.finalized = !!err
RollbackFinalized(err) == JSBool(Truthy(err))
CommitFinalized(err) == JSBool(Truthy(err))

\* rollback / commit: var req = { transaction: this.id }
FinalReq(id) == [transaction |-> id]

\* A finalize that never commits.
FinalizeNeverCommits(finalized) == FALSE

\* finalize: if (!this.finalized) return this.commit(callback)
FinalizeCommits(finalized) == ~Truthy(finalized)

\* getAll / delAll: inside the forEach callback `this` is not the transaction
\* but the global object, whose id is undefined.
ForEachThisId == Undefined

\* getAll / delAll: keysProto = []; keys.forEach(push keyToKeyProto(this.id, k))
KeysToProto(keys) == [i \in DOMAIN keys |-> keyToKeyProto(ForEachThisId, keys[i])]

\* A getAll / delAll that pushes onto the keysProto the call before left.
PushKeysNoReset(global, keys) ==
  JSArr((IF global.js = "array" THEN global.items ELSE <<>>) \o KeysToProto(keys))

\* getAll / delAll: the global keysProto is assigned a fresh array, then the
\* encodings are pushed onto it; the request is built from it at once.
PushKeys(global, keys) == JSArr(KeysToProto(keys))

GetAllReq(protos) == [keys |-> protos]

\* A getAll that hands back the decoded keys in reverse order.
GetAllCallbackReversed(err, resp) ==
  IF Truthy(err) THEN Args1(err)
  ELSE LET n == Len(resp.found)
       IN Args3(Null,
                JSArr([i \in 1..n |-> keyFromKeyProto(resp.found[n + 1 - i].entity.key)]),
                JSArr([i \in 1..n |-> entityFromEntityProto(resp.found[i].entity)]))

\* getAll's response callback.
GetAllCallback(err, resp) ==
  IF Truthy(err) THEN Args1(err)
  ELSE Args3(Null,
             JSArr([i \in DOMAIN resp.found |-> keyFromKeyProto(resp.found[i].entity.key)]),
             JSArr([i \in DOMAIN resp.found |-> entityFromEntityProto(resp.found[i].entity)]))

\* A get that hands back the last key and entity found.
GetCallbackLast(args) ==
  IF Truthy(args.err) \/ Len(args.a2.items) < 0 THEN Args1(args.err)
  ELSE Args3(Null,
             IF Len(args.a1.items) > 0
             THEN JSKey(args.a1.items[Len(args.a1.items)]) ELSE Undefined,
             IF Len(args.a2.items) > 0
             THEN JSEntity(args.a2.items[Len(args.a2.items)]) ELSE Undefined)

\* get's callback around getAll's: if (err || objs.length < 0) callback(err)
\* else callback(null, keys[0], objs[0]).
GetCallback(args) ==
  IF Truthy(args.err) \/ Len(args.a2.items) < 0 THEN Args1(args.err)
  ELSE Args3(Null,
             IF Len(args.a1.items) > 0 THEN JSKey(args.a1.items[1]) ELSE Undefined,
             IF Len(args.a2.items) > 0 THEN JSEntity(args.a2.items[1]) ELSE Undefined)

\* A putAll that rejects only a surplus of keys.
PutAllThrowsOnSurplusKeys(keys, objs) == Len(keys) > Len(objs)

\* putAll: if (keys.length != objs.length) throw
PutAllThrows(keys, objs) == Len(keys) # Len(objs)

\* putAll: the entity proto of objs[i] with its key proto assigned.
PutAllEntity(id, key, obj) ==
  [entityToEntityProto(obj) EXCEPT !.key = keyToKeyProto(id, key)]

\* putAll: the loop over i, pushing to update or to insertAutoId.
RECURSIVE PutAllLoop(_, _, _, _, _)
PutAllLoop(id, keys, objs, i, mutation) ==
  IF i > Len(keys) THEN mutation
  ELSE PutAllLoop(id, keys, objs, i + 1,
         IF isKeyComplete(keys[i])
         THEN [mutation EXCEPT !.update = Append(@, PutAllEntity(id, keys[i], objs[i]))]
         ELSE [mutation EXCEPT !.insertAutoId = Append(@, PutAllEntity(id, keys[i], objs[i]))])

\* A putAll that runs in the transaction once it has an id.
PutAllReqModeById(id, keys, objs) ==
  [mode |-> IF Truthy(id) THEN MODE_TRANSACTIONAL ELSE MODE_NON_TRANSACTIONAL,
   mutation |-> PutAllLoop(id, keys, objs, 1, [update |-> <<>>, insertAutoId |-> <<>>])]

\* A putAll that pushes every entity to update.
PutAllReqUpdateOnly(id, keys, objs) ==
  [mode |-> MODE_NON_TRANSACTIONAL,
   mutation |-> [update |-> [i \in DOMAIN keys |-> PutAllEntity(id, keys[i], objs[i])],
                 insertAutoId |-> <<>>]]

PutAllReq(id, keys, objs) ==
  [mode |-> MODE_NON_TRANSACTIONAL,
   mutation |-> PutAllLoop(id, keys, objs, 1, [update |-> <<>>, insertAutoId |-> <<>>])]

PutAllCallback(err, resp) == Args2(err, resp)

\* A delAll that sends its keys in an update bucket.
DelAllReqAsUpdate(protos) ==
  [mode |-> MODE_NON_TRANSACTIONAL, mutation |-> [update |-> protos]]

DelAllReq(protos) ==
  [mode |-> MODE_NON_TRANSACTIONAL, mutation |-> [delete |-> protos]]

DelAllCallback(err, resp) == Args1(err)

BeginCallback(err) == Args1(err)
CommitCallback(err) == Args1(err)
RollbackCallback(err) == Args1(err)

\* --------------------------------------------------------------- Dataset

\* A string as the sequence of its characters.
JSChars(chars) == [js |-> "string", chars |-> chars]
Chars == {"s", "e", "~", "a", "b", "c"}

\* String.prototype.indexOf(needle): the first position (from 0) where needle
\* occurs in str, or -1.
RECURSIVE IndexOfFrom(_, _, _)
IndexOfFrom(str, needle, i) ==
  IF i + Len(needle) > Len(str) THEN -1
  ELSE IF SubSeq(str, i + 1, i + Len(needle)) = needle THEN i
  ELSE IndexOfFrom(str, needle, i + 1)

indexOf(str, needle) == IndexOfFrom(str, needle, 0)

\* Dataset: opts = opts || {}; var id = opts.projectId || ''
ProjectIdOf(opts) ==
  IF opts.js = "object" /\ opts.projectId.js = "string" /\ opts.projectId.chars # <<>>
  THEN opts.projectId.chars
  ELSE <<>>

\* A Dataset that looks for the partition marker at the start of the id only.
DatasetIdOfPrefixOnly(id) ==
  IF indexOf(id, <<"s", "~">>) # 0 /\ indexOf(id, <<"e", "~">>) # 0
  THEN <<"s", "~">> \o id
  ELSE id

\* Dataset: if (id.indexOf("s~") < 0 && id.indexOf("e~") < 0) id = "s~" + id
DatasetIdOf(id) ==
  IF indexOf(id, <<"s", "~">>) < 0 /\ indexOf(id, <<"e", "~">>) < 0
  THEN <<"s", "~">> \o id
  ELSE id

\* function Dataset(opts): this.id
NewDataset(opts) ==
  [constructed |-> TRUE, opts |-> opts, id |-> DatasetIdOf(ProjectIdOf(opts))]

NoDataset(opts) == [constructed |-> FALSE, opts |-> opts, id |-> <<>>]

\* The options the caller may construct a Dataset with: none, an object
\* without projectId, or an object with a projectId string.
OptsOf(projectId) == [js |-> "object", projectId |-> projectId]
DatasetOpts ==
  {Undefined, OptsOf(Undefined)}
    \cup {OptsOf(JSChars(c)) : c \in SeqUpTo(Chars, MaxIdLen)}

\* The Dataset of the datastore operations: new Dataset({projectId: "abc"}),
\* whose this.id is "s~abc".
OptsAbc == OptsOf(JSChars(<<"a", "b", "c">>))
DatasetId == JSStr("s~abc")
DatasetConn == [js |-> "object", connection |-> "conn"]

\* A runInTransaction whose transaction gets a connection of its own.
RitTransactionOwnConn(default, id) ==
  NewTransaction([js |-> "object", connection |-> "another"], id)

\* runInTransaction: var t = new Transaction(this.transaction.conn, this.id)
RitTransaction(default, id) == NewTransaction(default.conn, id)

\* An allocateIds that accepts a complete key.
AllocateIdsNeverThrows(incompleteKey) == FALSE

\* allocateIds: if (entity.isKeyComplete(incompleteKey)) throw
AllocateIdsThrows(incompleteKey) == isKeyComplete(incompleteKey)

\* allocateIds: n times keyToKeyProto(this.id, incompleteKey), `this` being
\* the Dataset.
AllocateIdsReq(id, incompleteKey, n) ==
  [keys |-> [i \in 1..n |-> keyToKeyProto(id, incompleteKey)]]

\* allocateIds' response callback.
AllocateIdsCallback(err, resp) ==
  IF Truthy(err) THEN Args1(err)
  ELSE Args2(Null, JSArr([i \in DOMAIN resp.keys |-> keyFromKeyProto(resp.keys[i])]))

\* ------------------------------------------- prediction Model write stream
\* lib/prediction/model.js is not among the sources; createWriteStream
\* follows the behaviour its tests (test/prediction/model.js) describe.

Streams == 1..MaxStreams

\* What util.handleResp passes to its callback for a 'complete' response.
HandleErrs == {Null, JSErr("EHandle")}

NoStream ==
  [created |-> FALSE, writing |-> FALSE, requests |-> 0, response |-> FALSE,
   prefinish |-> FALSE, complete |-> FALSE, handled |-> Undefined, corked |-> 0,
   destroyed |-> FALSE, error |-> Null]

\* model.createWriteStream(): the stream, with a once-listener for 'writing'.
NewWriteStream == [NoStream EXCEPT !.created = TRUE]

\* writeStream.once('writing', ..): the first 'writing' makes the API request.
OnWriting(s) ==
  IF s.writing THEN s ELSE [s EXCEPT !.writing = TRUE, !.requests = @ + 1]

\* requestStream.on('response', ..): the write stream emits it again.
OnResponse(s) == [s EXCEPT !.response = TRUE]

\* requestStream.on('prefinish', ..): writeStream.cork()
OnPrefinish(s) == [s EXCEPT !.prefinish = TRUE, !.corked = @ + 1]

\* A 'complete' handler that uncorks whatever handleResp reports.
OnCompleteIgnoresError(s, err) ==
  [s EXCEPT !.complete = TRUE, !.handled = err,
            !.corked = IF @ > 0 THEN @ - 1 ELSE 0]

\* requestStream.on('complete', ..): util.handleResp(null, resp, resp.body,
\* function(err) { destroy the write stream with err, or uncork it }).
OnComplete(s, err) ==
  IF Truthy(err)
  THEN [s EXCEPT !.complete = TRUE, !.handled = err, !.destroyed = TRUE, !.error = err]
  ELSE [s EXCEPT !.complete = TRUE, !.handled = err,
                 !.corked = IF @ > 0 THEN @ - 1 ELSE 0]

\* ------------------------------------------------------------------ state

Txns == 0..MaxExplicit
\* The Dataset's own transaction (this.transaction); 1..MaxExplicit are the
\* transactions runInTransaction constructs.
DefaultTxn == 0
Explicit == Txns \ {DefaultTxn}

VARIABLES
  txn,        \* txn[t]: the fields of Transaction t
  keysProto,  \* the module-level (implicitly global) keysProto
  pending,    \* requests handed to conn.req and not yet answered
  rit,        \* rit[t]: the runInTransaction call that constructed t
  hist,       \* hist[t]: what has happened to t so far
  nCalls,     \* public method invocations so far
  nSent,      \* requests handed to conn.req so far
  sent,       \* the Request Sender's log: the requests in the order it got them
  dataset,    \* the Dataset: the options it was constructed with and its id
  ws,         \* ws[i]: the i-th write stream of Model.createWriteStream
  lastEvent   \* the step just taken: a call, a throw or a response

vars == <<txn, keysProto, pending, rit, hist, nCalls, nSent, sent, dataset, ws, lastEvent>>

NoReq == [method |-> "none", uri |-> <<>>, json |-> Undefined]
NoRaw == [err |-> Undefined, body |-> Undefined]
NoMr == [err |-> Undefined, resp |-> Undefined]

\* A call: the method invoked on t with its inputs, the requests it handed
\* to conn.req (nReq, req) and the callbacks it invoked at once (cbN, cb).
CallEvent(op, owner, t, keys, objs, nReq, req, cbN, cb) ==
  [kind |-> "call", op |-> op, owner |-> owner, txn |-> t,
   nKeys |-> IF nReq = 1 /\ req.uri[3] = "lookup" THEN Len(keys) ELSE 0,
   keys |-> keys,
   objs |-> objs, nReq |-> nReq, req |-> req, raw |-> NoRaw, mr |-> NoMr,
   cbN |-> cbN, cb |-> cb, fn |-> 0,
   rid |-> IF nReq = 1 THEN nSent + 1 ELSE 0, cbOf |-> 0]

ThrowEvent(op, t, keys, objs) ==
  [kind |-> "throw", op |-> op, owner |-> "user", txn |-> t,
   nKeys |-> 0, keys |-> keys,
   objs |-> objs, nReq |-> 0, req |-> NoReq, raw |-> NoRaw, mr |-> NoMr,
   cbN |-> 0, cb |-> Args0, fn |-> 0, rid |-> 0, cbOf |-> 0]

\* A makeReq that keeps the callback in one place for all its requests: an
\* answer invokes the callback of the request handed over last.
CallbackOfLatest(p, waiting) ==
  CHOOSE r \in {q.rid : q \in waiting} : \A q \in waiting : q.rid <= r

\* makeReq: the function handed to conn.req closes over the callback of its
\* own makeReq call, so the answer to request p invokes p's callback.
CallbackOf(p, waiting) == p.rid

\* A response: conn.req's answer raw to request p (rid), what makeReq handed
\* on (mr) and to which request's callback (cbOf), the callbacks of the caller
\* invoked (cbN, cb) and the invocations of fn.
ResponseEvent(p, raw, mr, cbN, cb, fn) ==
  [kind |-> "response", op |-> p.op, owner |-> p.owner, txn |-> p.txn,
   nKeys |-> p.nKeys, keys |-> <<>>, objs |-> <<>>, nReq |-> 0, req |-> NoReq, raw |-> raw,
   mr |-> mr, cbN |-> cbN, cb |-> cb, fn |-> fn,
   rid |-> p.rid, cbOf |-> CallbackOf(p, pending)]

NoRit ==
  [started |-> FALSE, beginRaw |-> NoRaw, fnCount |-> 0, doneCount |-> 0,
   cbCount |-> 0, cbLast |-> Args0]

\* lastFinal: the latest commit or rollback response of the transaction.
NoHist ==
  [beginOk |-> FALSE, crDone |-> FALSE, commitOk |-> FALSE, finalSent |-> FALSE,
   lastFinal |-> "none"]

\* The Dataset's transaction and the record of calls, before any call.
InitDatastore ==
  /\ txn = [t \in Txns |-> IF t = DefaultTxn
                           THEN NewTransaction(DatasetConn, DatasetId)
                           ELSE NotConstructed]
  /\ keysProto = Undefined
  /\ pending = {}
  /\ rit = [t \in Explicit |-> NoRit]
  /\ hist = [t \in Txns |-> NoHist]
  /\ nCalls = 0
  /\ nSent = 0
  /\ sent = <<>>
  /\ lastEvent = [kind |-> "init", op |-> "none", owner |-> "user",
                  txn |-> DefaultTxn, nKeys |-> 0, keys |-> <<>>,
                  objs |-> <<>>, nReq |-> 0,
                  req |-> NoReq, raw |-> NoRaw, mr |-> NoMr, cbN |-> 0,
                  cb |-> Args0, fn |-> 0, rid |-> 0, cbOf |-> 0]

Init ==
  /\ InitDatastore
  /\ dataset = NewDataset(OptsAbc)
  /\ ws = [i \in Streams |-> NoStream]

\* The caller holds the Dataset (and so its transaction) from the start, and
\* an explicit transaction once fn(t, done) has been invoked with it.
Accessible(t) ==
  \/ t = DefaultTxn
  \/ t \in Explicit /\ txn[t].live /\ rit[t].fnCount > 0

\* A makeReq whose requests overtake the ones handed over before.
HandOverFirst(log, t, rid) == <<[rid |-> rid, txn |-> t]>> \o log

\* makeReq calls this.conn.req(..) before it returns: the request of t is
\* with the Request Sender, behind the earlier ones, when the operation returns.
HandOver(log, t, rid) == Append(log, [rid |-> rid, txn |-> t])

\* A makeReq invoked once per key of a batch instead of once per call.
SendPerKey(t, op, owner, method, n) ==
  LET k == IF n > 1 THEN n ELSE 1
  IN /\ pending' = pending \cup
          {[rid |-> nSent + i, op |-> op, owner |-> owner, txn |-> t,
            method |-> method, nKeys |-> n] : i \in 1..k}
     /\ nSent' = nSent + k
     /\ sent' = HandOver(sent, t, nSent + 1)
     /\ hist' = [hist EXCEPT ![t].finalSent = @ \/ method \in {"commit", "rollback"}]

\* makeReq(method, req, callback) on t: one conn.req, the callback (and, for
\* a lookup or allocateIds, the number of keys it asks for) kept until its
\* answer.
Send(t, op, owner, method, n) ==
  /\ pending' = pending \cup
       {[rid |-> nSent + 1, op |-> op, owner |-> owner, txn |-> t,
         method |-> method, nKeys |-> n]}
  /\ nSent' = nSent + 1
  /\ sent' = HandOver(sent, t, nSent + 1)
  /\ hist' = [hist EXCEPT ![t].finalSent = @ \/ method \in {"commit", "rollback"}]

\* --------------------------------------------------------------- the calls

\* t.begin(callback)
Begin(t) ==
  /\ nCalls < MaxCalls /\ Accessible(t)
  /\ nCalls' = nCalls + 1
  /\ Send(t, "begin", "user", "beginTransaction", 0)
  /\ lastEvent' = CallEvent("begin", "user", t, <<>>, <<>>, 1,
                    MakeReqOptions(txn[t].datasetId, "beginTransaction", Null), 0, Args0)
  /\ UNCHANGED <<txn, keysProto, rit, dataset, ws>>

\* t.rollback(callback)
Rollback(t) ==
  /\ nCalls < MaxCalls /\ Accessible(t)
  /\ nCalls' = nCalls + 1
  /\ Send(t, "rollback", "user", "rollback", 0)
  /\ lastEvent' = CallEvent("rollback", "user", t, <<>>, <<>>, 1,
                    MakeReqOptions(txn[t].datasetId, "rollback", FinalReq(txn[t].id)),
                    0, Args0)
  /\ UNCHANGED <<txn, keysProto, rit, dataset, ws>>

\* t.commit(callback), for the caller's callback or runInTransaction's.
CommitFor(t, op, owner) ==
  /\ Send(t, "commit", owner, "commit", 0)
  /\ lastEvent' = CallEvent(op, owner, t, <<>>, <<>>, 1,
                    MakeReqOptions(txn[t].datasetId, "commit", FinalReq(txn[t].id)),
                    0, Args0)

Commit(t) ==
  /\ nCalls < MaxCalls /\ Accessible(t)
  /\ nCalls' = nCalls + 1
  /\ CommitFor(t, "commit", "user")
  /\ UNCHANGED <<txn, keysProto, rit, dataset, ws>>

\* t.finalize(callback)
Finalize(t) ==
  /\ nCalls < MaxCalls /\ Accessible(t)
  /\ nCalls' = nCalls + 1
  /\ IF FinalizeCommits(txn[t].finalized)
     THEN CommitFor(t, "finalize", "user")
     ELSE /\ lastEvent' = CallEvent("finalize", "user", t, <<>>, <<>>, 0, NoReq, 1, Args0)
          /\ UNCHANGED <<pending, nSent, sent, hist>>
  /\ UNCHANGED <<txn, keysProto, rit, dataset, ws>>

\* t.getAll(keys, callback) and t.get(key, callback) = getAll([key], ..)
GetAllFor(t, op, keys) ==
  /\ nCalls < MaxCalls /\ Accessible(t)
  /\ nCalls' = nCalls + 1
  /\ keysProto' = PushKeys(keysProto, keys)
  /\ Send(t, op, "user", "lookup", Len(keys))
  /\ lastEvent' = CallEvent(op, "user", t, keys, <<>>, 1,
                    MakeReqOptions(txn[t].datasetId, "lookup",
                                   GetAllReq(keysProto'.items)), 0, Args0)
  /\ UNCHANGED <<txn, rit, dataset, ws>>

GetAll(t) == \E keys \in SeqUpTo(Keys, MaxKeys) : GetAllFor(t, "getAll", keys)
Get(t) == \E key \in Keys : GetAllFor(t, "get", <<key>>)

\* t.putAll(keys, objs, callback) and t.put(key, obj, callback)
PutAllFor(t, op, keys, objs) ==
  /\ nCalls < MaxCalls /\ Accessible(t)
  /\ nCalls' = nCalls + 1
  /\ IF PutAllThrows(keys, objs)
     THEN /\ lastEvent' = ThrowEvent(op, t, keys, objs)
          /\ UNCHANGED <<pending, nSent, sent, hist>>
     ELSE /\ Send(t, op, "user", "commit", 0)
          /\ lastEvent' = CallEvent(op, "user", t, keys, objs, 1,
                            MakeReqOptions(txn[t].datasetId, "commit",
                                           PutAllReq(txn[t].id, keys, objs)), 0, Args0)
  /\ UNCHANGED <<txn, keysProto, rit, dataset, ws>>

PutAll(t) ==
  \E keys \in SeqUpTo(Keys, MaxKeys), objs \in SeqUpTo(Entities, MaxKeys) :
    PutAllFor(t, "putAll", keys, objs)
Put(t) == \E key \in Keys, obj \in Entities : PutAllFor(t, "put", <<key>>, <<obj>>)

\* t.delAll(keys, callback) and t.del(key, callback)
DelAllFor(t, op, keys) ==
  /\ nCalls < MaxCalls /\ Accessible(t)
  /\ nCalls' = nCalls + 1
  /\ keysProto' = PushKeys(keysProto, keys)
  /\ Send(t, op, "user", "commit", 0)
  /\ lastEvent' = CallEvent(op, "user", t, keys, <<>>, 1,
                    MakeReqOptions(txn[t].datasetId, "commit",
                                   DelAllReq(keysProto'.items)), 0, Args0)
  /\ UNCHANGED <<txn, rit, dataset, ws>>

DelAll(t) == \E keys \in SeqUpTo(Keys, MaxKeys) : DelAllFor(t, "delAll", keys)
Del(t) == \E key \in Keys : DelAllFor(t, "del", <<key>>)

\* dataset.allocateIds(incompleteKey, n, callback), sent through the
\* Dataset's own transaction.
AllocateIds ==
  \E key \in Keys, n \in 0..MaxAlloc :
    /\ nCalls < MaxCalls
    /\ nCalls' = nCalls + 1
    /\ IF AllocateIdsThrows(key)
       THEN /\ lastEvent' = [ThrowEvent("allocateIds", DefaultTxn, <<key>>, <<>>)
                               EXCEPT !.nKeys = n]
            /\ UNCHANGED <<pending, nSent, sent, hist>>
       ELSE /\ Send(DefaultTxn, "allocateIds", "user", "allocateIds", n)
            /\ lastEvent' =
                 [CallEvent("allocateIds", "user", DefaultTxn, <<key>>, <<>>, 1,
                            MakeReqOptions(txn[DefaultTxn].datasetId, "allocateIds",
                                           AllocateIdsReq(DatasetId, key, n)), 0, Args0)
                    EXCEPT !.nKeys = n]
    /\ UNCHANGED <<txn, keysProto, rit, dataset, ws>>

\* dataset.runInTransaction(fn, callback): a new Transaction on the dataset's
\* connection and id, then t.begin with the internal callback.
RunInTransaction(t) ==
  /\ nCalls < MaxCalls
  /\ t \in Explicit /\ ~txn[t].live
  /\ \A u \in Explicit : u < t => txn[u].live
  /\ nCalls' = nCalls + 1
  /\ txn' = [txn EXCEPT ![t] = RitTransaction(txn[DefaultTxn], DatasetId)]
  /\ rit' = [rit EXCEPT ![t].started = TRUE]
  /\ Send(t, "begin", "rit", "beginTransaction", 0)
  /\ lastEvent' = CallEvent("runInTransaction", "rit", t, <<>>, <<>>, 1,
                    MakeReqOptions(DatasetId, "beginTransaction", Null), 0, Args0)
  /\ UNCHANGED <<keysProto, dataset, ws>>

\* fn calls done(): t.finalize(callback) with runInTransaction's callback.
Done(t) ==
  /\ t \in Explicit /\ rit[t].fnCount > 0
  /\ rit[t].doneCount < MaxDone
  /\ IF FinalizeCommits(txn[t].finalized)
     THEN /\ CommitFor(t, "done", "rit")
          /\ rit' = [rit EXCEPT ![t].doneCount = @ + 1]
     ELSE /\ lastEvent' = CallEvent("done", "rit", t, <<>>, <<>>, 0, NoReq, 1, Args0)
          /\ rit' = [rit EXCEPT ![t].doneCount = @ + 1, ![t].cbCount = @ + 1,
                                ![t].cbLast = Args0]
          /\ UNCHANGED <<pending, nSent, sent, hist>>
  /\ UNCHANGED <<txn, keysProto, nCalls, dataset, ws>>

\* ----------------------------------------------------------- the responses

\* A runInTransaction that goes on to fn although begin failed.
RitBeginAlwaysInvokesFn(err) == TRUE

\* runInTransaction's callback of t.begin: if (err) return callback(err);
\* fn(t, done).
RitBeginInvokesFn(err) == ~Truthy(err)

\* What the operation's own response callback passes to the caller's.
CallbackArgs(op, mr) ==
  CASE op = "begin" -> BeginCallback(mr.err)
    [] op = "commit" -> CommitCallback(mr.err)
    [] op = "rollback" -> RollbackCallback(mr.err)
    [] op = "getAll" -> GetAllCallback(mr.err, mr.resp)
    [] op = "get" -> GetCallback(GetAllCallback(mr.err, mr.resp))
    [] op \in {"putAll", "put"} -> PutAllCallback(mr.err, mr.resp)
    [] op \in {"delAll", "del"} -> DelAllCallback(mr.err, mr.resp)
    [] op = "allocateIds" -> AllocateIdsCallback(mr.err, mr.resp)

\* The fields of t after the response callback of op has run.
TxnAfter(op, t, mr) ==
  CASE op = "begin" -> [txn[t] EXCEPT !.id = BeginId(@, mr.err, mr.resp)]
    [] op = "commit" -> [txn[t] EXCEPT !.finalized = CommitFinalized(mr.err)]
    [] op = "rollback" -> [txn[t] EXCEPT !.finalized = RollbackFinalized(mr.err)]
    [] OTHER -> txn[t]

HistAfter(op, t, mr) ==
  CASE op = "begin" -> [hist[t] EXCEPT !.beginOk = @ \/ ~Truthy(mr.err)]
    [] op = "commit" ->
         [hist[t] EXCEPT !.crDone = TRUE, !.commitOk = @ \/ ~Truthy(mr.err),
                         !.lastFinal = IF Truthy(mr.err) THEN "commitErr" ELSE "commitOk"]
    [] op = "rollback" ->
         [hist[t] EXCEPT !.crDone = TRUE,
                         !.lastFinal = IF Truthy(mr.err) THEN "rollbackErr" ELSE "rollbackOk"]
    [] OTHER -> hist[t]

\* conn.req answers request p with (r.err, response, r.body).
Response(p, r) ==
  LET mr == MakeReqCallback(r.err, r.body)
      t == p.txn
      args == CallbackArgs(p.op, mr)
      ritBegin == p.owner = "rit" /\ p.op = "begin"
      fn == IF ritBegin /\ RitBeginInvokesFn(mr.err) THEN 1 ELSE 0
      cbN == IF ritBegin /\ RitBeginInvokesFn(mr.err) THEN 0 ELSE 1
  IN /\ p \in pending
     /\ pending' = pending \ {p}
     /\ txn' = [txn EXCEPT ![t] = TxnAfter(p.op, t, mr)]
     /\ hist' = [hist EXCEPT ![t] = HistAfter(p.op, t, mr)]
     /\ rit' = IF p.owner = "rit"
               THEN [rit EXCEPT ![t].beginRaw = IF ritBegin THEN r ELSE @,
                                ![t].fnCount = @ + fn,
                                ![t].cbCount = @ + cbN,
                                ![t].cbLast = IF cbN = 1 THEN args ELSE @]
               ELSE rit
     /\ lastEvent' = ResponseEvent(p, r, mr, cbN, IF cbN = 1 THEN args ELSE Args0, fn)
     /\ UNCHANGED <<keysProto, nCalls, nSent, sent, dataset, ws>>

Next ==
  \/ \E t \in Txns : Begin(t)
  \/ \E t \in Txns : Rollback(t)
  \/ \E t \in Txns : Commit(t)
  \/ \E t \in Txns : Finalize(t)
  \/ \E t \in Txns : Get(t)
  \/ \E t \in Txns : GetAll(t)
  \/ \E t \in Txns : Put(t)
  \/ \E t \in Txns : PutAll(t)
  \/ \E t \in Txns : Del(t)
  \/ \E t \in Txns : DelAll(t)
  \/ AllocateIds
  \/ \E t \in Explicit : RunInTransaction(t)
  \/ \E t \in Explicit : Done(t)
  \/ \E p \in pending : \E r \in Responses(p.method) : Response(p, r)

Spec == Init /\ [][Next]_vars

\* ------------------------------------------- constructing the Dataset alone

\* new Dataset(opts)
Construct ==
  /\ ~dataset.constructed
  /\ dataset' = NewDataset(dataset.opts)
  /\ UNCHANGED <<txn, keysProto, pending, rit, hist, nCalls, nSent, sent, ws, lastEvent>>

\* new Dataset({projectId: dataset.id}): a Dataset from another one's id.
Reconstruct ==
  /\ dataset.constructed
  /\ dataset' = NewDataset(OptsOf(JSChars(dataset.id)))
  /\ UNCHANGED <<txn, keysProto, pending, rit, hist, nCalls, nSent, sent, ws, lastEvent>>

InitDataset ==
  /\ InitDatastore
  /\ ws = [i \in Streams |-> NoStream]
  /\ dataset \in {NoDataset(o) : o \in DatasetOpts}

NextDataset == Construct \/ Reconstruct

SpecDataset == InitDataset /\ [][NextDataset]_vars

\* ------------------------------------------------ the write streams alone

datastore == <<txn, keysProto, pending, rit, hist, nCalls, nSent, sent, dataset, lastEvent>>

\* model.createWriteStream()
CreateWriteStream(i) ==
  /\ ~ws[i].created
  /\ \A j \in Streams : j < i => ws[j].created
  /\ ws' = [ws EXCEPT ![i] = NewWriteStream]
  /\ UNCHANGED datastore

\* The write stream emits 'writing'.
EmitWriting(i) ==
  /\ ws[i].created
  /\ ws' = [ws EXCEPT ![i] = OnWriting(@)]
  /\ UNCHANGED datastore

\* The request stream emits 'response'.
EmitResponse(i) ==
  /\ ws[i].requests > 0 /\ ~ws[i].response
  /\ ws' = [ws EXCEPT ![i] = OnResponse(@)]
  /\ UNCHANGED datastore

\* The request stream emits 'prefinish'.
EmitPrefinish(i) ==
  /\ ws[i].requests > 0 /\ ~ws[i].prefinish
  /\ ws' = [ws EXCEPT ![i] = OnPrefinish(@)]
  /\ UNCHANGED datastore

\* The request stream emits 'complete'; handleResp reports err.
EmitComplete(i) ==
  /\ ws[i].requests > 0 /\ ~ws[i].complete
  /\ \E err \in HandleErrs : ws' = [ws EXCEPT ![i] = OnComplete(@, err)]
  /\ UNCHANGED datastore

NextStream ==
  \/ \E i \in Streams : CreateWriteStream(i)
  \/ \E i \in Streams : EmitWriting(i)
  \/ \E i \in Streams : EmitResponse(i)
  \/ \E i \in Streams : EmitPrefinish(i)
  \/ \E i \in Streams : EmitComplete(i)

SpecStream == Init /\ [][NextStream]_vars

\* ------------------------------------------------------------------ claims

\* body carries an error field / the error a response amounts to.
CarriesError(body) == body.js = "object" /\ "error" \in DOMAIN body
ErrorOf(raw) == IF CarriesError(raw.body) THEN raw.body.error ELSE raw.err
Failed(raw) == ErrorOf(raw).js = "error"

\* C1: once the response to a commit() or rollback() has been delivered the
\* transaction's finalized flag is true, whether that response was a success
\* or an error; before any such response it is false (not truthy).
C1_FinalizedOnceResponded ==
  \A t \in Txns :
    /\ hist[t].crDone => txn[t].finalized = JSBool(TRUE)
    /\ ~hist[t].crDone => ~Truthy(txn[t].finalized)

\* C2: on a transaction whose commit has already responded successfully,
\* every later finalize(cb) invokes cb with no arguments and hands no request
\* to the Request Sender.
C2_FinalizeAfterCommitSendsNothing ==
  (lastEvent.kind = "call" /\ lastEvent.op = "finalize"
     /\ hist[lastEvent.txn].commitOk)
  => (lastEvent.nReq = 0 /\ lastEvent.cbN = 1 /\ lastEvent.cb = Args0)

\* C3: in runInTransaction(fn, cb), when the beginTransaction request fails
\* with error E (a transport error, or a body carrying an error field), fn is
\* never invoked, cb has been invoked exactly once, with E alone, and no
\* commit or rollback request is sent for that transaction.
C3_BeginFailure ==
  \A t \in Explicit :
    (rit[t].beginRaw # NoRaw /\ Failed(rit[t].beginRaw))
    => /\ rit[t].fnCount = 0
       /\ rit[t].cbCount = 1
       /\ rit[t].cbLast = Args1(ErrorOf(rit[t].beginRaw))
       /\ ~hist[t].finalSent
       /\ \A p \in pending : p.txn # t

C3_Witness ==
  \E t \in Explicit :
    /\ rit[t].beginRaw # NoRaw /\ Failed(rit[t].beginRaw)
    /\ rit[t].cbCount = 1 /\ nCalls = MaxCalls

\* The commits of done() on t that are still unanswered.
RitCommitsPending(t) ==
  Cardinality({p \in pending : p.txn = t /\ p.owner = "rit" /\ p.op = "commit"})

BeginAnswered(t) ==
  lastEvent'.kind = "response" /\ lastEvent'.op = "begin" /\ lastEvent'.txn = t
FinalRequested(t) ==
  /\ lastEvent'.kind = "call" /\ lastEvent'.txn = t /\ lastEvent'.nReq = 1
  /\ lastEvent'.op \in {"commit", "rollback", "finalize", "done"}

C6_ServiceErrorFirst ==
  [][lastEvent'.kind = "response"
       => /\ lastEvent'.mr =
               IF CarriesError(lastEvent'.raw.body)
               THEN [err |-> lastEvent'.raw.body.error, resp |-> Null]
               ELSE [err |-> lastEvent'.raw.err, resp |-> lastEvent'.raw.body]
          /\ nSent' = nSent
          /\ pending' \subseteq pending /\ pending' # pending]_vars

C6_Witness ==
  /\ lastEvent.kind = "response"
  /\ lastEvent.raw = [err |-> JSErr("ETransport"), body |-> ErrBody]
  /\ lastEvent.mr = [err |-> JSErr("EService"), resp |-> Null]

\* C7: putAll(keys, objs, cb) with keys.length != objs.length throws: no
\* request is sent, cb is not invoked, no request waits for an answer that
\* could invoke it, and the transactions' fields are unchanged.
C7_PutAllMismatchThrows ==
  [][(lastEvent'.kind \in {"call", "throw"} /\ lastEvent'.op \in {"putAll", "put"}
        /\ Len(lastEvent'.keys) # Len(lastEvent'.objs))
       => /\ lastEvent'.kind = "throw"
          /\ lastEvent'.nReq = 0 /\ nSent' = nSent /\ pending' = pending
          /\ lastEvent'.cbN = 0
          /\ txn' = txn /\ keysProto' = keysProto]_vars

C7_Witness ==
  /\ lastEvent.kind = "throw" /\ lastEvent.op = "putAll"
  /\ Len(lastEvent.keys) = 2 /\ Len(lastEvent.objs) = 1
  /\ nSent = 0

\* The subsequence of 1..n at the positions in S, in increasing order.
RECURSIVE Positions(_, _)
Positions(n, S) ==
  IF n = 0 THEN <<>>
  ELSE IF n \in S THEN Append(Positions(n - 1, S), n) ELSE Positions(n - 1, S)

\* Entity proto e is the encoding of input i of the putAll just called.
EncodesInput(e, i) ==
  /\ keyFromKeyProto(e.key) = lastEvent.keys[i]
  /\ entityFromEntityProto(e) = lastEvent.objs[i]

\* bucket holds, in input order, exactly the inputs at the positions in S.
BucketIs(bucket, S) ==
  LET pos == Positions(Len(lastEvent.keys), S)
  IN /\ Len(bucket) = Len(pos)
     /\ \A j \in DOMAIN bucket : EncodesInput(bucket[j], pos[j])

DecodedKey(f) == IF f = FoundA THEN KeyA ELSE KeyB
DecodedEntity(f) == IF f = FoundA THEN EntityX ELSE EntityY

DecodedAllocated(k) ==
  IF k = keyToKeyProto(JSStr("s~abc"), KeyAlloc1) THEN KeyAlloc1 ELSE KeyAlloc2

ItemsCarried(body) ==
  IF "keys" \in DOMAIN body THEN Len(body.keys)
  ELSE IF "delete" \in DOMAIN body.mutation THEN Len(body.mutation.delete)
  ELSE Len(body.mutation.update) + Len(body.mutation.insertAutoId)

\* C12: every public Transaction method invocation (begin, commit, rollback,
\* finalize, get, getAll, put, putAll, del, delAll) hands at most one request
\* to the Request Sender, however many keys or entities it is given: a batch
\* operation sends all its items in its one request, and no other step (a
\* throw, a response) sends any.
C12_OneRequestPerCall ==
  [][/\ nSent' <= nSent + 1
     /\ Cardinality(pending' \ pending) = nSent' - nSent
     /\ lastEvent'.kind = "call"
          => (lastEvent'.nReq <= 1 /\ nSent' = nSent + lastEvent'.nReq)
     /\ lastEvent'.kind \in {"throw", "response"} => nSent' = nSent
     /\ (lastEvent'.kind = "call"
           /\ lastEvent'.op \in {"get", "getAll", "put", "putAll", "del", "delAll"})
          => /\ nSent' = nSent + 1
             /\ ItemsCarried(lastEvent'.req.json) = Len(lastEvent'.keys)]_vars

C12_Witness ==
  /\ lastEvent.kind = "call" /\ lastEvent.op = "getAll"
  /\ Len(lastEvent.keys) = 2
  /\ nSent = 2 /\ Cardinality(pending) = 2

\* The requests of coordinator t in the Request Sender's log, in log order.
SentBy(log, t) == SelectSeq(log, LAMBDA e : e.txn = t)

\* C13: within one Transaction coordinator, requests are handed to the
\* Request Sender in the order the caller invoked the operations: the request
\* of the operation just called is behind every request the coordinator
\* handed over before, and the arrival of a response (of this or of another
\* coordinator) never reorders the requests handed over.
C13_SendOrder ==
  [][\A t \in Txns :
       IF lastEvent'.kind = "call" /\ lastEvent'.txn = t /\ lastEvent'.nReq = 1
       THEN \E e \in {[rid |-> nSent + 1, txn |-> t]} :
              /\ SentBy(sent', t) = Append(SentBy(sent, t), e)
              /\ \E p \in pending' \ pending : p.rid = e.rid /\ p.txn = t
       ELSE SentBy(sent', t) = SentBy(sent, t)]_vars

\* Two requests of one coordinator, the second answered before the first.
C13_Witness ==
  /\ Len(sent) = 2 /\ sent[1].txn = sent[2].txn
  /\ {p.rid : p \in pending} = {sent[1].rid}
  /\ lastEvent.kind = "response"

\* The id holds "s~" or "e~" at some position.
HasMarker(id) ==
  \E i \in 1..(Len(id) - 1) : id[i] \in {"s", "e"} /\ id[i + 1] = "~"

\* The project id the options carry, the empty string when they carry none.
GivenProjectId(opts) ==
  IF opts = Undefined \/ opts.projectId = Undefined THEN <<>> ELSE opts.projectId.chars

\* C14: the Dataset constructor derives its dataset id from projectId by
\* prefixing "s~" exactly when the id contains neither "s~" nor "e~" anywhere:
\* "abc" gives "s~abc", "s~abc" stays "s~abc", an id with a partition marker
\* in the middle is left unchanged; the derivation is idempotent: a Dataset
\* constructed from a derived id has that same id.
C14_DatasetId ==
  [][dataset'.constructed
       => LET given == GivenProjectId(dataset'.opts)
          IN /\ dataset'.id = IF HasMarker(given) THEN given ELSE <<"s", "~">> \o given
             /\ given = <<"a", "b", "c">> => dataset'.id = <<"s", "~", "a", "b", "c">>
             /\ given = <<"s", "~", "a", "b", "c">> => dataset'.id = given
             /\ dataset.constructed => dataset'.id = dataset.id]_vars

\* A Dataset constructed from an id with the marker in the middle.
C14_Witness ==
  /\ dataset.constructed
  /\ dataset.opts = OptsOf(JSChars(<<"a", "e", "~", "b">>))
  /\ dataset.id = <<"a", "e", "~", "b">>

KeyProtosOf(body) ==
  IF "keys" \in DOMAIN body THEN {body.keys[i] : i \in DOMAIN body.keys}
  ELSE IF "delete" \in DOMAIN body.mutation
  THEN {body.mutation.delete[i] : i \in DOMAIN body.mutation.delete}
  ELSE {body.mutation.update[i].key : i \in DOMAIN body.mutation.update}
         \cup {body.mutation.insertAutoId[i].key : i \in DOMAIN body.mutation.insertAutoId}

\* C16: every key-proto placed in a lookup, commit or allocateIds request (by
\* get/getAll, put/putAll, del/delAll and allocateIds) is encoded with the
\* dataset id of the coordinator that performs the operation, never with the
\* transaction id or an absent value, whether or not the transaction has
\* begun.
C16_KeysCarryDatasetId ==
  (lastEvent.kind = "call" /\ lastEvent.nReq = 1
     /\ lastEvent.op \in {"get", "getAll", "put", "putAll", "del", "delAll",
                          "allocateIds"})
  => \A k \in KeyProtosOf(lastEvent.req.json) :
       k.partitionId.datasetId = txn[lastEvent.txn].datasetId

\* C17: a transaction that has been finalized by a rollback() is not
\* committed afterwards by finalize: in runInTransaction, if fn rolls the
\* transaction back, waits for the successful rollback response and then
\* calls done, no commit request is sent for that transaction and cb is
\* invoked with no error.
C17_NoCommitAfterRollback ==
  \A t \in Explicit :
    (lastEvent.kind = "call" /\ lastEvent.op = "done" /\ lastEvent.txn = t
       /\ hist[t].lastFinal = "rollbackOk"
       /\ \A p \in pending : p.txn = t => p.op = "commit" /\ p.owner = "rit")
    => /\ lastEvent.nReq = 0
       /\ \A p \in pending : p.txn # t
       /\ lastEvent.cbN = 1 /\ lastEvent.cb = Args0

\* C18: finalized is a terminal state of the transaction state machine: over
\* any sequence of begin, commit, rollback, finalize and get/put/del calls and
\* their responses, once the finalized flag has become true it never becomes
\* false again.
C18_FinalizedIsTerminal ==
  [][\A t \in Txns :
       Truthy(txn[t].finalized) => Truthy(txn'[t].finalized)]_vars

\* C19: every mutation request built by putAll or delAll carries mode
\* NON_TRANSACTIONAL in every reachable transaction state: with id null,
\* after a successful begin (id set), and after commit/rollback; no request
\* ever carries mode TRANSACTIONAL.
C19_AlwaysNonTransactional ==
  (lastEvent.kind = "call" /\ lastEvent.nReq = 1)
  => LET body == lastEvent.req.json
     IN /\ lastEvent.op \in {"put", "putAll", "del", "delAll"}
             => ("mode" \in DOMAIN body /\ body.mode = "NON_TRANSACTIONAL")
        /\ "mode" \in DOMAIN body => body.mode # "TRANSACTIONAL"

\* A putAll on a transaction that has begun, its id set by the server.
C19_Witness ==
  /\ lastEvent.kind = "call" /\ lastEvent.op = "putAll"
  /\ Len(lastEvent.keys) = 1
  /\ hist[lastEvent.txn].beginOk /\ txn[lastEvent.txn].id.js = "object"
  /\ lastEvent.req.json.mode = "NON_TRANSACTIONAL"

KeyListOf(body) == IF "keys" \in DOMAIN body THEN body.keys ELSE body.mutation.delete

\* C21: for any interleaving of getAll and delAll calls, on the same or on
\* different transactions, with their pending responses, the key list carried
\* by each request contains exactly the encodings of the keys passed to that
\* call: the module-level keysProto variable never leaks keys from one call
\* into another call's request, and a response leaves it as it is.
C21_NoKeyLeak ==
  [][/\ (lastEvent'.kind = "call"
           /\ lastEvent'.op \in {"get", "getAll", "del", "delAll"})
          => LET carried == KeyListOf(lastEvent'.req.json)
             IN /\ Len(carried) = Len(lastEvent'.keys)
                /\ \A i \in DOMAIN carried :
                     /\ keyFromKeyProto(carried[i]) = lastEvent'.keys[i]
                     /\ Len(carried[i].path) = Len(lastEvent'.keys[i])
                /\ keysProto' = JSArr(carried)
     /\ lastEvent'.kind = "response" => keysProto' = keysProto]_vars

\* A delAll of one key called while a getAll of two keys awaits its answer.
C21_Witness ==
  /\ lastEvent.kind = "call" /\ lastEvent.op = "delAll"
  /\ Len(lastEvent.keys) = 1
  /\ \E p \in pending : p.op = "getAll" /\ p.nKeys = 2
  /\ Len(lastEvent.req.json.mutation.delete) = 1

\* The beginTransaction requests of the default Transaction awaiting an answer.
DefaultBegins(reqs) ==
  {p \in reqs : p.txn = DefaultTxn /\ p.method = "beginTransaction"}

\* C22: an explicit transaction spawned by runInTransaction is independent of
\* the Dataset's default Transaction: it uses the same connection and dataset
\* id, and no step of runInTransaction (begin, fn's operations on the explicit
\* transaction, finalize, and their responses) changes the default
\* Transaction's id or finalized flag; through the Dataset facade methods alone
\* the default Transaction's id stays null forever: the facade methods never
\* send a beginTransaction for it, and only the answer to a begin() called on
\* the default Transaction itself changes its id.
C22_ExplicitIsIndependent ==
  [][/\ \A t \in Explicit :
          txn'[t].live => /\ txn'[t].conn = txn'[DefaultTxn].conn
                          /\ txn'[t].datasetId = txn'[DefaultTxn].datasetId
                          /\ txn'[t].datasetId = DatasetId
     /\ lastEvent'.txn \in Explicit
          => /\ txn'[DefaultTxn] = txn[DefaultTxn]
             /\ DefaultBegins(pending') = DefaultBegins(pending)
     /\ (lastEvent'.kind \in {"call", "throw"} /\ lastEvent'.op # "begin")
          => DefaultBegins(pending') = DefaultBegins(pending)
     /\ txn'[DefaultTxn].id # txn[DefaultTxn].id
          => (lastEvent'.kind = "response" /\ lastEvent'.op = "begin"
              /\ lastEvent'.owner = "user" /\ lastEvent'.txn = DefaultTxn)
     /\ (DefaultBegins(pending) = {} /\ txn[DefaultTxn].id = Null)
          => txn'[DefaultTxn].id = Null]_vars

\* An explicit transaction begun and committed by runInTransaction, the
\* default Transaction still as constructed.
C22_Witness ==
  \E t \in Explicit :
    /\ txn[t].id.js = "object" /\ txn[t].finalized.js = "boolean"
    /\ rit[t].cbCount = 1
    /\ txn[DefaultTxn] = NewTransaction(DatasetConn, DatasetId)

====
